---------------------------- MODULE Spec2Model ----------------------------
(***************************************************************************)
(* A model of lius_tools::variant_ptr (src/variant_ptr.h) and of the demo  *)
(* program that uses it (src/main.cpp).                                    *)
(*                                                                         *)
(* A variant_ptr<Ts...> stores a size_t type_index_ and a type-erased      *)
(* void* ptr_.  reset computes the index with index_of_type, which walks   *)
(* the type list and asks std::is_convertible; visit and has_type scan the *)
(* type list comparing positions with type_index_.  apply_visitor peels one*)
(* variant_ptr at a time with MultiVisitorToSingleVisitor and BindVisitor. *)
(*                                                                         *)
(* Types are names; std::is_convertible is the relation conv, fixed when   *)
(* the templates are instantiated.  An object is a record [type, id]; the  *)
(* erased address held in ptr_ is the object it points to, and a pointer   *)
(* X* to an object has X = the object's type (no casts in the caller).     *)
(***************************************************************************)
EXTENDS Integers, Sequences, FiniteSets, TLC

VARIABLES
  conv,          \* std::is_convertible<X,Y>::value, as a set of pairs <<X,Y>>
  refs,          \* the variant_ptr objects of the caller, a sequence
  bound,         \* per variant_ptr: the pointer last given to its ctor/reset
  last,          \* the last completed operation of the sequential caller
  md,            \* the call chain of one apply_visitor call in progress
  callerVisitor, \* the state of the caller's visitor object
  conc,          \* two threads on refs[1]: a reset in steps, a reader in steps
  mainpc,        \* position in the round body of main
  mainout        \* what the round body of main has computed so far

vars == <<conv, refs, bound, last, md, callerVisitor, conc, mainpc, mainout>>

---------------------------------------------------------------------------
(* Bounds of the model and sizes fixed by the program.                     *)

\* Objects of each type the caller owns (two, so that an address and a type
\* are told apart).
ObjectsPerType == 2

\* Visits one caller performs through its own visitor object before the
\* model stops counting.
MaxVisitorCalls == 2

\* Width of size_t.
SizeBits == 64

---------------------------------------------------------------------------
(* size_t arithmetic, modulo 2^SizeBits, on little-endian 16-bit limbs.     *)

LimbBase == 2^16

NumLimbs == SizeBits \div 16

\* The size_t with value n, for a small natural n.
SizeT(n) ==
  [i \in 1..NumLimbs |->
     IF i = 1 THEN n % LimbBase ELSE IF i = 2 THEN n \div LimbBase ELSE 0]

\* static_cast<size_t>(-1): every bit set.
SizeMinusOne == [i \in 1..NumLimbs |-> LimbBase - 1]

RECURSIVE AddLimbs(_, _, _, _)
AddLimbs(a, b, i, carry) ==
  IF i > NumLimbs THEN <<>>
  ELSE LET s == a[i] + b[i] + carry
       IN  <<s % LimbBase>> \o AddLimbs(a, b, i + 1, s \div LimbBase)

\* a + b in size_t: the carry out of the top limb is dropped.
SizeAdd(a, b) == AddLimbs(a, b, 1, 0)

\* a - b in size_t: a + (~b + 1).
SizeSub(a, b) ==
  SizeAdd(a, SizeAdd([i \in 1..NumLimbs |-> LimbBase - 1 - b[i]], SizeT(1)))

---------------------------------------------------------------------------
(* Types, objects and type lists.                                          *)

\* Types the single-reference model instantiates the templates with.
AbstractTypes == {"A", "B", "C"}

\* struct Rock, struct Paper, struct Scissors.
HandTypes == {"Rock", "Paper", "Scissors"}

\* The objects of the caller with a type in S.
ObjectsOf(S) == [type : S, id : 1..ObjectsPerType]

\* is_convertible when only X -> X holds (unrelated class types).
IdentityConv(S) == {<<X, X>> : X \in S}

\* Every is_convertible relation over S in which X -> X holds (the members
\* are copyable: the handlers of main.cpp take them by value).
ReflexiveConvs(S) ==
  {IdentityConv(S) \cup R : R \in SUBSET {pr \in S \X S : pr[1] # pr[2]}}

Range(s) == {s[i] : i \in 1..Len(s)}

\* The type lists Ts... over S: non-empty, members distinct.
TypeLists(S) ==
  {s \in UNION {[1..n -> S] : n \in 1..Cardinality(S)} :
     \A i, j \in 1..Len(s) : i # j => s[i] # s[j]}

---------------------------------------------------------------------------
(* The templates of variant_ptr.h.                                         *)

\* index_of_type with the fallback 0 instead of -1.
RECURSIVE index_of_type_zero_fallback(_, _)
index_of_type_zero_fallback(X, Ts) ==
  IF Ts = <<>> THEN SizeT(0)
  ELSE IF <<X, Head(Ts)>> \in conv THEN SizeT(0)
  ELSE SizeAdd(SizeT(1), index_of_type_zero_fallback(X, Tail(Ts)))

\* index_of_type<X, Ts...>::value
RECURSIVE index_of_type_rec(_, _)
index_of_type_rec(X, Ts) ==
  IF Ts = <<>> THEN SizeMinusOne
  ELSE IF <<X, Head(Ts)>> \in conv THEN SizeT(0)
  ELSE SizeAdd(SizeT(1), index_of_type_rec(X, Tail(Ts)))

index_of_type(X, Ts) == index_of_type_rec(X, Ts)

\* length_of<Ts...>::value
RECURSIVE length_of(_)
length_of(Ts) ==
  IF Ts = <<>> THEN SizeT(0) ELSE SizeAdd(length_of(Tail(Ts)), SizeT(1))

\* The comparison both scans make at the sublist Us of v's type list:
\* type_index_ == length_of<Ts...>::value - length_of<U, Us...>::value
AtPosition(v, Us) == v.type_index_ = SizeSub(length_of(v.Ts), length_of(Us))

\* reset, first statement: type_index_ = index_of_type<X, Ts...>::value
reset_type_index(v, p) ==
  [v EXCEPT !.type_index_ = index_of_type(p.type, v.Ts)]

\* reset, second statement: ptr_ = (void *)(ptr)
reset_ptr(v, p) == [v EXCEPT !.ptr_ = p]

\* variant_ptr::reset(X* ptr)
reset(v, p) == reset_ptr(reset_type_index(v, p), p)

\* variant_ptr::variant_ptr(X* ptr): both fields are first written by reset.
variant_ptr(Ts, p) ==
  reset([Ts |-> Ts, type_index_ |-> SizeT(0), ptr_ |-> p], p)

\* has_type_impl<X>(TypeList<U, Us...>) and has_type_impl<X>(TypeList<U>)
RECURSIVE has_type_impl(_, _, _)
has_type_impl(v, X, Us) ==
  IF Len(Us) = 1 THEN X = Head(Us)
  ELSE IF AtPosition(v, Us) THEN X = Head(Us)
  ELSE has_type_impl(v, X, Tail(Us))

\* variant_ptr::has_type<X>()
has_type(v, X) == has_type_impl(v, X, v.Ts)

\* visit_impl: the type U the address is cast to, the position matched, and
\* whether the empty-list base case was the one that ran.
RECURSIVE visit_impl(_, _)
visit_impl(v, Us) ==
  IF Us = <<>>
    THEN [U |-> Head(v.Ts), pos |-> 0, base |-> TRUE]
  ELSE IF AtPosition(v, Us)
    THEN [U |-> Head(Us), pos |-> Len(v.Ts) - Len(Us) + 1, base |-> FALSE]
  ELSE visit_impl(v, Tail(Us))

\* cast_and_visit<U>: *casted_ptr, the argument the visitor's handler gets:
\* the object at ptr_ seen as a U.
cast_and_visit(v, U) == [as |-> U, obj |-> v.ptr_]

\* variant_ptr::visit, up to the call of visitor.visit
visit(v) ==
  LET m == visit_impl(v, v.Ts)
  IN  [a |-> cast_and_visit(v, m.U), pos |-> m.pos, base |-> m.base]

---------------------------------------------------------------------------
(* The sequential caller of one variant_ptr.                               *)

NoObject == [type |-> "none", id |-> 0]

\* The record of an operation: what was called and what it returned.  For a
\* reset, repeat says that the operation before it was a construct or reset
\* with the same pointer, and before is then the <<type_index_, ptr_>> that
\* the repeated reset found.
NoLast ==
  [op |-> "construct", X |-> "none", ret |-> FALSE, handler |-> "none",
   arg |-> NoObject, pos |-> 0, base |-> FALSE, repeat |-> FALSE,
   before |-> <<>>]

\* The observable state of a variant_ptr.
Pair(v) == <<v.type_index_, v.ptr_>>

ResetRecord(i, p) ==
  LET again == last.op \in {"construct", "reset"} /\ bound[i] = p
  IN  [NoLast EXCEPT !.op = "reset", !.X = p.type, !.repeat = again,
                     !.before = IF again THEN Pair(refs[i]) ELSE <<>>]

\* No apply_visitor call yet.  Of a call: pc is the step it is at, M the
\* MultiVisitor it was given, order the variant_ptrs passed (indices into
\* refs, in argument order), level the position in order of the variant_ptr
\* dispatched next or last, cur the argument the last single dispatch
\* resolved, binds the live BindVisitor objects (oldest first), chain the
\* BindVisitor whose visit runs next (0: the MultiVisitor itself), args the
\* arguments collected for the MultiVisitor's handler.  target says which
\* visitor object the chain refers to and copy is the state of the by-value
\* parameter.  dispatched, created, handlerCalls, result, entry and snap
\* record what happened.
IdleMd ==
  [pc |-> "idle", M |-> "none", order |-> <<>>, level |-> 0, cur |-> <<>>,
   binds |-> <<>>, chain |-> 0, args |-> <<>>, target |-> "none",
   copy |-> 0, dispatched |-> <<>>, created |-> 0, handlerCalls |-> 0,
   result |-> <<>>, entry |-> "none", snap |-> <<>>]

\* No observation made by the reading thread.
NoObs ==
  [done |-> FALSE, kind |-> "none", X |-> "none", U |-> "none", pos |-> 0,
   base |-> FALSE, addr |-> NoObject, ret |-> FALSE, mid |-> FALSE,
   resetTo |-> NoObject, resetFrom |-> NoObject]

\* Both threads outside any call.  sync: the caller runs reset and the
\* readers as critical sections of one mutex.  wpc: the statement of reset
\* the writing thread executes next, pending its argument.  rpc: where the
\* reading thread is in visit or has_type, rUs the sublist of the type list
\* its scan is at, rU and rpos what the scan matched, rmid whether the call
\* began between the two writes of a reset with no write since.
IdleConc ==
  [sync |-> FALSE, mutex |-> "free", wpc |-> "idle", pending |-> NoObject,
   rpc |-> "idle", rkind |-> "none", rX |-> "none", rUs |-> <<>>,
   rU |-> "none", rpos |-> 0, rbase |-> FALSE, rmid |-> FALSE,
   obs |-> NoObs]

InitSeq ==
  /\ conv \in ReflexiveConvs(AbstractTypes)
  /\ \E Ts \in TypeLists(AbstractTypes), p \in ObjectsOf(AbstractTypes) :
       /\ refs = <<variant_ptr(Ts, p)>>
       /\ bound = <<p>>
  /\ last = NoLast
  /\ md = IdleMd
  /\ callerVisitor = 0
  /\ conc = IdleConc
  /\ mainpc = "off"
  /\ mainout = <<>>

\* A reset that adds the new index to the stored one.
ResetAccumulating(i, p) ==
  /\ refs' = [refs EXCEPT ![i] =
                [@ EXCEPT !.type_index_ =
                            SizeAdd(@, index_of_type(p.type, refs[i].Ts)),
                          !.ptr_ = p]]
  /\ bound' = [bound EXCEPT ![i] = p]
  /\ last' = ResetRecord(i, p)
  /\ UNCHANGED <<conv, md, callerVisitor, conc, mainpc, mainout>>

\* refs[i].reset(p)
Reset(i, p) ==
  /\ refs' = [refs EXCEPT ![i] = reset(@, p)]
  /\ bound' = [bound EXCEPT ![i] = p]
  /\ last' = ResetRecord(i, p)
  /\ UNCHANGED <<conv, md, callerVisitor, conc, mainpc, mainout>>

\* refs[i].has_type<X>()
HasType(i, X) ==
  /\ last' = [NoLast EXCEPT !.op = "has_type", !.X = X,
                            !.ret = has_type(refs[i], X)]
  /\ UNCHANGED <<conv, refs, bound, md, callerVisitor, conc, mainpc, mainout>>

\* refs[i].visit(visitor) with a visitor that has one handler per member of
\* the type list, each returning its own type's name.
Visit(i) ==
  LET r == visit(refs[i])
  IN  /\ last' = [NoLast EXCEPT !.op = "visit", !.handler = r.a.as,
                                !.arg = r.a.obj, !.pos = r.pos,
                                !.base = r.base]
      /\ UNCHANGED <<conv, refs, bound, md, callerVisitor, conc, mainpc,
                     mainout>>

NextSeq ==
  \/ \E p \in ObjectsOf(AbstractTypes) : Reset(1, p)
  \/ \E X \in AbstractTypes : HasType(1, X)
  \/ Visit(1)

Spec == InitSeq /\ [][NextSeq]_vars

---------------------------------------------------------------------------
(* apply_visitor: the multi-dispatch call chain, one step per call made.   *)

\* The MultiVisitors of the model.  "Counting" has one handler per tuple of
\* types; each handler adds one to the visitor's own counter and returns
\* the tuple of types it is declared for.  "LosesTo" is main.cpp's.
\* LosesTo::visit overload resolution on the argument types <<a, b>>: the
\* three non-template overloads win over the template when they match.
LosesTo_visit(types) ==
  IF types \in {<<"Rock", "Paper">>, <<"Paper", "Scissors">>,
                <<"Scissors", "Rock">>}
    THEN [handler |-> types, value |-> TRUE]
    ELSE [handler |-> <<"typename A", "typename B">>, value |-> FALSE]

\* GetDescription::visit
GetDescription_visit(type) ==
  CASE type = "Rock" -> "Rock, a very solid move."
    [] type = "Paper" -> "Paper, a very elusive move."
    [] type = "Scissors" -> "Scissors, a very sharp move."

\* The static types of a tuple of resolved arguments.
TypesOf(args) == [i \in 1..Len(args) |-> args[i].as]

\* The objects of a tuple of resolved arguments.
ObjectsIn(args) == [i \in 1..Len(args) |-> args[i].obj]

\* apply_visitor taking its visitor by reference.
apply_visitor_by_reference(M, order) ==
  [IdleMd EXCEPT !.pc = "visit", !.M = M, !.order = order, !.level = 1,
                 !.target = "caller", !.copy = callerVisitor,
                 !.entry = "apply",
                 !.snap = [visitor |-> callerVisitor, refs |-> refs]]

\* apply_visitor(visitor, variant, variants...): the parameter visitor is a
\* copy of the caller's, single_visitor wraps that copy, and the first
\* variant's visit is about to run.
apply_visitor(M, order) ==
  [IdleMd EXCEPT !.pc = "visit", !.M = M, !.order = order, !.level = 1,
                 !.target = "copy", !.copy = callerVisitor,
                 !.entry = "apply",
                 !.snap = [visitor |-> callerVisitor, refs |-> refs]]

\* The caller calls apply_visitor(visitor, refs[order[1]], ...).
ApplyVisitor(M, order) ==
  /\ md.pc \in {"idle", "done"}
  /\ md' = apply_visitor(M, order)
  /\ UNCHANGED <<conv, refs, bound, last, callerVisitor, conc, mainpc,
                 mainout>>

\* variant.visit(single_visitor, variants...): visit_impl finds the type
\* and cast_and_visit resolves the argument; the visitor's visit is called
\* with it and the remaining variants (copies of the variant_ptrs).
VariantVisit ==
  /\ md.pc = "visit"
  /\ LET r == visit(refs[md.order[md.level]])
     IN  md' = [md EXCEPT !.cur = r.a,
                          !.dispatched = Append(@, md.order[md.level]),
                          !.pc = IF md.level < Len(md.order)
                                   THEN "bind" ELSE "forward"]
  /\ UNCHANGED <<conv, refs, bound, last, callerVisitor, conc, mainpc,
                 mainout>>

\* MultiVisitorToSingleVisitor::visit(a, variant, variants...): a
\* BindVisitor over the current multi visitor and a, a
\* MultiVisitorToSingleVisitor over it, and the next variant's visit.
BindNext ==
  /\ md.pc = "bind"
  /\ md' = [md EXCEPT !.binds = Append(@, [element |-> md.cur,
                                           multi_visitor_ |-> Len(md.binds),
                                           liveBefore |-> Len(md.binds)]),
                      !.created = @ + 1,
                      !.level = @ + 1,
                      !.pc = "visit"]
  /\ UNCHANGED <<conv, refs, bound, last, callerVisitor, conc, mainpc,
                 mainout>>

\* MultiVisitorToSingleVisitor::visit(a): multi_visitor_.visit(a), where
\* multi_visitor_ is the newest BindVisitor.
Forward ==
  /\ md.pc = "forward"
  /\ md' = [md EXCEPT !.args = <<md.cur>>, !.chain = Len(md.binds),
                      !.pc = "chain"]
  /\ UNCHANGED <<conv, refs, bound, last, callerVisitor, conc, mainpc,
                 mainout>>

\* A BindVisitor::visit that passes element_ after ts... instead of before.
BindVisitor_visit_element_last ==
  /\ md.pc = "chain"
  /\ md.chain > 0
  /\ md' = [md EXCEPT !.args = @ \o <<md.binds[md.chain].element>>,
                      !.chain = md.binds[md.chain].multi_visitor_]
  /\ UNCHANGED <<conv, refs, bound, last, callerVisitor, conc, mainpc,
                 mainout>>

\* BindVisitor::visit(ts...): multi_visitor_.visit(element_, ts...)
BindVisitor_visit ==
  /\ md.pc = "chain"
  /\ md.chain > 0
  /\ md' = [md EXCEPT !.args = <<md.binds[md.chain].element>> \o @,
                      !.chain = md.binds[md.chain].multi_visitor_]
  /\ UNCHANGED <<conv, refs, bound, last, callerVisitor, conc, mainpc,
                 mainout>>

\* The MultiVisitor's own visit(args...): the handler for the static types
\* of args runs.  A Counting handler changes the visitor object the chain
\* refers to.
Handler ==
  /\ md.pc = "chain"
  /\ md.chain = 0
  /\ LET res == IF md.M = "LosesTo"
                  THEN LosesTo_visit(TypesOf(md.args))
                  ELSE [handler |-> TypesOf(md.args), value |-> TRUE]
         called == [handler |-> res.handler, value |-> res.value,
                    args |-> ObjectsIn(md.args),
                    liveBinds |-> Len(md.binds)]
     IN  /\ md' = [md EXCEPT !.result = called,
                             !.handlerCalls = @ + 1,
                             !.copy = IF md.M = "Counting"
                                         /\ md.target = "copy"
                                        THEN @ + 1 ELSE @,
                             !.pc = "return"]
         /\ callerVisitor' = IF md.M = "Counting" /\ md.target = "caller"
                               THEN callerVisitor + 1 ELSE callerVisitor
  /\ UNCHANGED <<conv, refs, bound, last, conc, mainpc, mainout>>

\* A return that leaves the BindVisitors alive.
ReturnLeaking ==
  /\ md.pc = "return"
  /\ md' = [md EXCEPT !.pc = "done"]
  /\ UNCHANGED <<conv, refs, bound, last, callerVisitor, conc, mainpc,
                 mainout>>

\* The calls return, innermost first: each frame of
\* MultiVisitorToSingleVisitor::visit(a, variant, variants...) destroys its
\* BindVisitor; when none is left apply_visitor itself returns.
Return ==
  /\ md.pc = "return"
  /\ md' = IF md.binds # <<>>
             THEN [md EXCEPT !.binds = SubSeq(@, 1, Len(@) - 1)]
             ELSE [md EXCEPT !.pc = "done"]
  /\ UNCHANGED <<conv, refs, bound, last, callerVisitor, conc, mainpc,
                 mainout>>

\* refs[i].visit(visitor) with the caller's Counting visitor: visit takes
\* it by reference and the handler runs on the caller's object.
VisitByReference(i) ==
  /\ md.pc \in {"idle", "done"}
  /\ callerVisitor < MaxVisitorCalls
  /\ LET r == visit(refs[i])
     IN  md' = [IdleMd EXCEPT !.pc = "done", !.M = "Counting",
                              !.order = <<i>>, !.dispatched = <<i>>,
                              !.handlerCalls = 1, !.entry = "visit",
                              !.result = [handler |-> <<r.a.as>>,
                                          value |-> TRUE,
                                          args |-> <<r.a.obj>>,
                                          liveBinds |-> 0],
                              !.snap = [visitor |-> callerVisitor,
                                        refs |-> refs]]
  /\ callerVisitor' = callerVisitor + 1
  /\ UNCHANGED <<conv, refs, bound, last, conc, mainpc, mainout>>

\* Types and type lists of the multi-dispatch model.
MultiTypes == {"A", "B"}

\* The argument orders of a call over K variant_ptrs: as declared, and with
\* the first two swapped.
Orders(K) ==
  {[i \in 1..K |-> i],
   [i \in 1..K |-> IF i = 1 THEN 2 ELSE IF i = 2 THEN 1 ELSE i]}

InitMulti ==
  /\ conv \in ReflexiveConvs(MultiTypes)
  /\ \E K \in {2, 3} :
       \E Tss \in [1..K -> TypeLists(MultiTypes)] :
         \E ps \in [1..K -> {o \in ObjectsOf(MultiTypes) : o.id = 1}] :
           /\ refs = [i \in 1..K |-> variant_ptr(Tss[i], ps[i])]
           /\ bound = ps
  /\ last = NoLast
  /\ md = IdleMd
  /\ callerVisitor = 0
  /\ conc = IdleConc
  /\ mainpc = "off"
  /\ mainout = <<>>

NextMulti ==
  \/ \E order \in Orders(Len(refs)) : ApplyVisitor("Counting", order)
  \/ VariantVisit
  \/ BindNext
  \/ Forward
  \/ BindVisitor_visit
  \/ Handler
  \/ Return
  \/ \E i \in 1..Len(refs) : VisitByReference(i)

SpecMulti == InitMulti /\ [][NextMulti]_vars

---------------------------------------------------------------------------
(* main.cpp: the body of one round, for any two hands.                     *)

HandPtr(p) == variant_ptr(<<"Rock", "Paper", "Scissors">>, p)

\* rock, paper, scissors: the three objects of main.
Hands == {o \in ObjectsOf(HandTypes) : o.id = 1}

InitMain ==
  /\ conv = IdentityConv(HandTypes)
  /\ \E a \in Hands, b \in Hands :
       /\ refs = <<HandPtr(a), HandPtr(b)>>
       /\ bound = <<a, b>>
  /\ last = NoLast
  /\ md = IdleMd
  /\ callerVisitor = 0
  /\ conc = IdleConc
  /\ mainpc = "describe_alice"
  /\ mainout = [alice |-> "", bob |-> "", alice_loses_to_bob |-> FALSE,
                bob_loses_to_alice |-> FALSE, printed |-> ""]

\* alices_hand.visit(get_description)
DescribeAlice ==
  /\ mainpc = "describe_alice"
  /\ mainout' = [mainout EXCEPT
                   !.alice = GetDescription_visit(visit(refs[1]).a.as)]
  /\ mainpc' = "describe_bob"
  /\ UNCHANGED <<conv, refs, bound, last, md, callerVisitor, conc>>

\* bobs_hand.visit(get_description)
DescribeBob ==
  /\ mainpc = "describe_bob"
  /\ mainout' = [mainout EXCEPT
                   !.bob = GetDescription_visit(visit(refs[2]).a.as)]
  /\ mainpc' = "alice_vs_bob"
  /\ UNCHANGED <<conv, refs, bound, last, md, callerVisitor, conc>>

\* The multi-dispatch of loses_to over (alices_hand, bobs_hand) is called.
CallAliceVsBob ==
  /\ mainpc = "alice_vs_bob"
  /\ md' = apply_visitor("LosesTo", <<1, 2>>)
  /\ mainpc' = "alice_vs_bob_called"
  /\ UNCHANGED <<conv, refs, bound, last, callerVisitor, conc, mainout>>

\* bool alice_loses_to_bob = the result of that call.
AssignAliceLoses ==
  /\ mainpc = "alice_vs_bob_called"
  /\ md.pc = "done"
  /\ mainout' = [mainout EXCEPT !.alice_loses_to_bob = md.result.value]
  /\ mainpc' = "bob_vs_alice"
  /\ UNCHANGED <<conv, refs, bound, last, md, callerVisitor, conc>>

\* The multi-dispatch of loses_to over (bobs_hand, alices_hand) is called.
CallBobVsAlice ==
  /\ mainpc = "bob_vs_alice"
  /\ md' = apply_visitor("LosesTo", <<2, 1>>)
  /\ mainpc' = "bob_vs_alice_called"
  /\ UNCHANGED <<conv, refs, bound, last, callerVisitor, conc, mainout>>

\* bool bob_loses_to_alice = the result of that call.
AssignBobLoses ==
  /\ mainpc = "bob_vs_alice_called"
  /\ md.pc = "done"
  /\ mainout' = [mainout EXCEPT !.bob_loses_to_alice = md.result.value]
  /\ mainpc' = "report"
  /\ UNCHANGED <<conv, refs, bound, last, md, callerVisitor, conc>>

\* The if / else if / else that prints the outcome of the round.
Report ==
  /\ mainpc = "report"
  /\ mainout' = [mainout EXCEPT !.printed =
                   IF mainout.alice_loses_to_bob THEN "Alice loses to Bob"
                   ELSE IF mainout.bob_loses_to_alice
                     THEN "Bob loses to Alice"
                   ELSE "Alice and Bob tie"]
  /\ mainpc' = "end"
  /\ UNCHANGED <<conv, refs, bound, last, md, callerVisitor, conc>>

NextMain ==
  \/ DescribeAlice
  \/ DescribeBob
  \/ CallAliceVsBob
  \/ AssignAliceLoses
  \/ CallBobVsAlice
  \/ AssignBobLoses
  \/ Report
  \/ VariantVisit
  \/ BindNext
  \/ Forward
  \/ BindVisitor_visit
  \/ Handler
  \/ Return

SpecMain == InitMain /\ [][NextMain]_vars

---------------------------------------------------------------------------
(* Two threads on one variant_ptr: one calls reset, the other visit or     *)
(* has_type.  Each read or write of a field is one step, in program order. *)
(* With conc.sync the caller wraps every call in one mutex.                *)

\* The mutex can be taken: always when the caller uses none.
CanEnter == ~conc.sync \/ conc.mutex = "free"

\* The writing thread calls refs[1].reset(p).
ResetCall(p) ==
  /\ conc.wpc = "idle"
  /\ CanEnter
  /\ conc' = [conc EXCEPT !.wpc = "type_index_", !.pending = p,
                          !.mutex = IF conc.sync THEN "writer" ELSE @]
  /\ UNCHANGED <<conv, refs, bound, last, md, callerVisitor, mainpc,
                 mainout>>

\* A first statement of reset that assigns ptr_ instead of type_index_.
ResetWriteTypeIndex_assigns_ptr ==
  /\ conc.wpc = "type_index_"
  /\ refs' = [refs EXCEPT ![1] = reset_ptr(@, conc.pending)]
  /\ conc' = [conc EXCEPT !.wpc = "ptr_", !.rmid = FALSE]
  /\ UNCHANGED <<conv, bound, last, md, callerVisitor, mainpc, mainout>>

\* reset, first statement: type_index_ is written.
ResetWriteTypeIndex ==
  /\ conc.wpc = "type_index_"
  /\ refs' = [refs EXCEPT ![1] = reset_type_index(@, conc.pending)]
  /\ conc' = [conc EXCEPT !.wpc = "ptr_", !.rmid = FALSE]
  /\ UNCHANGED <<conv, bound, last, md, callerVisitor, mainpc, mainout>>

\* reset, second statement: ptr_ is written, and reset returns.
ResetWritePtr ==
  /\ conc.wpc = "ptr_"
  /\ refs' = [refs EXCEPT ![1] = reset_ptr(@, conc.pending)]
  /\ bound' = [bound EXCEPT ![1] = conc.pending]
  /\ conc' = [conc EXCEPT !.wpc = "idle", !.rmid = FALSE,
                          !.mutex = IF conc.sync THEN "free" ELSE @]
  /\ UNCHANGED <<conv, last, md, callerVisitor, mainpc, mainout>>

\* The reading thread calls refs[1].visit(visitor) (kind "visit") or
\* refs[1].has_type<X>() (kind "has_type").
ReaderCall(kind, X) ==
  /\ conc.rpc = "idle"
  /\ CanEnter
  /\ conc' = [conc EXCEPT !.rpc = "scan", !.rkind = kind, !.rX = X,
                          !.rUs = refs[1].Ts, !.rU = "none", !.rpos = 0,
                          !.rbase = FALSE, !.rmid = (conc.wpc = "ptr_"),
                          !.obs = NoObs,
                          !.mutex = IF conc.sync THEN "reader" ELSE @]
  /\ UNCHANGED <<conv, refs, bound, last, md, callerVisitor, mainpc,
                 mainout>>

\* The observation a reader leaves when its call returns.
Observation(U, pos, base, addr, ret) ==
  [done |-> TRUE, kind |-> conc.rkind, X |-> conc.rX, U |-> U, pos |-> pos,
   base |-> base, addr |-> addr, ret |-> ret, mid |-> conc.rmid,
   resetTo |-> conc.pending, resetFrom |-> bound[1]]

\* The reader's call returns.
ReaderReturn(o) ==
  [conc EXCEPT !.rpc = "idle", !.obs = o,
               !.mutex = IF conc.sync THEN "free" ELSE @]

\* One step of visit_impl: the base case over the empty list, or one
\* comparison of a position with type_index_.
VisitScan ==
  /\ conc.rpc = "scan"
  /\ conc.rkind = "visit"
  /\ conc' =
       IF conc.rUs = <<>>
         THEN [conc EXCEPT !.rpc = "cast", !.rU = Head(refs[1].Ts),
                           !.rpos = 0, !.rbase = TRUE]
       ELSE IF AtPosition(refs[1], conc.rUs)
         THEN [conc EXCEPT !.rpc = "cast", !.rU = Head(conc.rUs),
                           !.rpos = Len(refs[1].Ts) - Len(conc.rUs) + 1]
       ELSE [conc EXCEPT !.rUs = Tail(@)]
  /\ UNCHANGED <<conv, refs, bound, last, md, callerVisitor, mainpc,
                 mainout>>

\* cast_and_visit: ptr_ is read and the handler for the matched type runs.
VisitCast ==
  /\ conc.rpc = "cast"
  /\ conc' = ReaderReturn(Observation(conc.rU, conc.rpos, conc.rbase,
                                      refs[1].ptr_, FALSE))
  /\ UNCHANGED <<conv, refs, bound, last, md, callerVisitor, mainpc,
                 mainout>>

\* One step of has_type_impl: the one-type overload, which reads nothing,
\* or one comparison of a position with type_index_.
HasTypeScan ==
  /\ conc.rpc = "scan"
  /\ conc.rkind = "has_type"
  /\ conc' =
       IF Len(conc.rUs) = 1 \/ AtPosition(refs[1], conc.rUs)
         THEN ReaderReturn(Observation(
                Head(conc.rUs), Len(refs[1].Ts) - Len(conc.rUs) + 1, FALSE,
                NoObject, conc.rX = Head(conc.rUs)))
         ELSE [conc EXCEPT !.rUs = Tail(@)]
  /\ UNCHANGED <<conv, refs, bound, last, md, callerVisitor, mainpc,
                 mainout>>

InitConc ==
  /\ conv \in ReflexiveConvs(MultiTypes)
  /\ \E Ts \in TypeLists(MultiTypes), p \in ObjectsOf(MultiTypes) :
       /\ refs = <<variant_ptr(Ts, p)>>
       /\ bound = <<p>>
  /\ last = NoLast
  /\ md = IdleMd
  /\ callerVisitor = 0
  /\ \E sync \in BOOLEAN : conc = [IdleConc EXCEPT !.sync = sync]
  /\ mainpc = "off"
  /\ mainout = <<>>

NextConc ==
  \/ \E p \in ObjectsOf(MultiTypes) : ResetCall(p)
  \/ ResetWriteTypeIndex
  \/ ResetWritePtr
  \/ \E kind \in {"visit", "has_type"}, X \in MultiTypes :
       ReaderCall(kind, IF kind = "visit" THEN "none" ELSE X)
  \/ VisitScan
  \/ VisitCast
  \/ HasTypeScan

SpecConc == InitConc /\ [][NextConc]_vars

---------------------------------------------------------------------------
(* Claims about one variant_ptr used by one sequential caller (Spec).      *)

\* X is convertible to some member of Ts.
Eligible(X, Ts) == \E i \in 1..Len(Ts) : <<X, Ts[i]>> \in conv

\* The stored tag denotes a member of the type list: it is in [0, N).
TagInRange(v) == \E k \in 0..(Len(v.Ts) - 1) : v.type_index_ = SizeT(k)

\* C1: a variant_ptr bound to a value of a member type T, visited with a
\* visitor that has one handler per member, invokes the handler of T on
\* that value, never another member's handler.
C1_HeldTypeHandler ==
  (last.op = "visit" /\ bound[1].type \in Range(refs[1].Ts))
    => (last.handler = bound[1].type /\ last.arg = bound[1])

\* C3: for members T and X of the type list, a variant_ptr bound to a T
\* value answers has_type<X>() with TRUE exactly when X is T.
C3_HasTypeExact ==
  (/\ last.op = "has_type"
   /\ bound[1].type \in Range(refs[1].Ts)
   /\ last.X \in Range(refs[1].Ts))
    => (last.ret = (last.X = bound[1].type))

\* C4: construct or reset with a pointer whose type is convertible to no
\* member of the type list leaves a tag outside [0, N): it denotes no member.
C4_SentinelOutOfRange ==
  (/\ last.op \in {"construct", "reset"}
   /\ ~Eligible(bound[1].type, refs[1].Ts))
    => ~TagInRange(refs[1])

\* C6: after reset(p) the pair <<tag, address>> is the one that the type
\* of p and p alone determine, and a reset(p) that directly follows a
\* construct or reset with the same p leaves the pair as it found it.
C6_ResetIdempotent ==
  last.op = "reset"
    => /\ Pair(refs[1])
            = <<index_of_type(bound[1].type, refs[1].Ts), bound[1]>>
       /\ (last.repeat => Pair(refs[1]) = last.before)

\* A reset(p) repeated on a pointer whose type is not at the head of the
\* type list, so that its index is not 0.
C6_Witness ==
  /\ last.op = "reset"
  /\ last.repeat
  /\ refs[1].type_index_ # SizeT(0)

\* C7: after any construct and resets the tag is in [0, N) and the address
\* is the pointer last bound, and a visit matches at position tag: the
\* base case of visit_impl over the empty type list does not run.
C7_FallbackUnreachable ==
  /\ TagInRange(refs[1])
  /\ refs[1].ptr_ = bound[1]
  /\ last.op = "visit"
       => (~last.base /\ SizeT(last.pos - 1) = refs[1].type_index_)

\* A visit of a variant_ptr over two or more types that was last bound to
\* a pointer whose type is convertible to no member.
C7_Witness ==
  /\ last.op = "visit"
  /\ Len(refs[1].Ts) >= 2
  /\ ~Eligible(bound[1].type, refs[1].Ts)

---------------------------------------------------------------------------
(* Claims about apply_visitor (SpecMulti).                                 *)

\* An apply_visitor call has returned.
ApplyDone == md.pc = "done" /\ md.entry = "apply"

\* C2: apply_visitor over variant_ptrs bound to values of member types
\* invokes one handler, the one keyed by the tuple of the types of the
\* values held, in argument order, on those values in that order.
C2_KeyedByHeldTypes ==
  (ApplyDone
   /\ \A i \in 1..Len(refs) : bound[i].type \in Range(refs[i].Ts))
    => /\ md.handlerCalls = 1
       /\ md.result.handler = [i \in 1..Len(md.order) |->
                                 bound[md.order[i]].type]
       /\ md.result.args = [i \in 1..Len(md.order) |-> bound[md.order[i]]]

\* The part of C2 that is about the composition alone: the handler invoked
\* is the one that dispatching by hand on each variant_ptr in turn selects
\* (the types the single dispatches resolve), on the values in order.
C2_CommutesWithNestedDispatch ==
  ApplyDone
    => /\ md.handlerCalls = 1
       /\ md.result.handler = [i \in 1..Len(md.order) |->
                                 visit(refs[md.order[i]]).a.as]
       /\ md.result.args = [i \in 1..Len(md.order) |->
                              refs[md.order[i]].ptr_]

\* C9: a K-ary apply_visitor dispatches on its variant_ptrs in argument
\* order, creates K-1 BindVisitors, the i-th binding the value resolved
\* from the i-th variant_ptr while the earlier ones are live, calls the
\* MultiVisitor's handler once, with all K-1 BindVisitors live, and has no
\* BindVisitor live after it returned.
C9_PeelingProtocol ==
  md.entry = "apply"
    => LET K == Len(md.order)
       IN  /\ md.dispatched = SubSeq(md.order, 1, Len(md.dispatched))
           /\ md.created <= K - 1
           /\ Len(md.binds) <= md.created
           /\ \A i \in 1..Len(md.binds) :
                /\ md.binds[i].element.obj = refs[md.order[i]].ptr_
                /\ md.binds[i].liveBefore = i - 1
           /\ md.handlerCalls <= 1
           /\ md.handlerCalls = 1
                => /\ md.result.liveBinds = K - 1
                   /\ md.dispatched = md.order
                   /\ md.created = K - 1
           /\ md.pc \in {"return", "done"} => md.handlerCalls = 1
           /\ md.pc = "done" => md.binds = <<>>

\* A 3-ary apply_visitor call that has returned.
C9_Witness == ApplyDone /\ Len(md.order) = 3 /\ md.created = 2

\* C10: apply_visitor leaves the caller's visitor object as it was (the
\* handler changed the copy), a single-dispatch visit changes the caller's
\* visitor object, and neither changes a variant_ptr.
C10_VisitorFrame ==
  /\ md.entry # "none" => refs = md.snap.refs
  /\ ApplyDone
       => (callerVisitor = md.snap.visitor /\ md.copy = md.snap.visitor + 1)
  /\ (md.pc = "done" /\ md.entry = "visit")
       => callerVisitor = md.snap.visitor + 1

\* An apply_visitor call that returned after the caller's visitor had been
\* changed by a single-dispatch visit.
C10_Witness == ApplyDone /\ callerVisitor = 1 /\ md.copy = 2

---------------------------------------------------------------------------
(* Claims about main.cpp (SpecMain).                                       *)

\* The pairs <<a, b>> for which a loses to b.
LosingPairs ==
  {<<"Rock", "Paper">>, <<"Paper", "Scissors">>, <<"Scissors", "Rock">>}

\* C5: for each of the 9 pairs of hands, LosesTo dispatched over (alice,
\* bob) is true exactly for (Rock, Paper), (Paper, Scissors) and (Scissors,
\* Rock), dispatched over (bob, alice) exactly when the swapped pair is one
\* of these, and the two results are never both true.
C5_RockPaperScissors ==
  /\ mainpc \in {"bob_vs_alice", "bob_vs_alice_called", "report", "end"}
       => mainout.alice_loses_to_bob
            = (<<bound[1].type, bound[2].type>> \in LosingPairs)
  /\ mainpc \in {"report", "end"}
       => /\ mainout.bob_loses_to_alice
               = (<<bound[2].type, bound[1].type>> \in LosingPairs)
          /\ ~(mainout.alice_loses_to_bob /\ mainout.bob_loses_to_alice)

\* Alice threw rock, Bob threw paper, and the round has been reported.
C5_Witness ==
  /\ mainpc = "end"
  /\ bound[1].type = "Rock"
  /\ bound[2].type = "Paper"
  /\ mainout.alice_loses_to_bob
  /\ ~mainout.bob_loses_to_alice
  /\ mainout.printed = "Alice loses to Bob"

---------------------------------------------------------------------------
(* Claims about reset racing with a reader (SpecConc).                     *)

\* The tag and the address belong to one referent: the tag is the index
\* that a reset to the addressed object stores.
SameReferent(tag, addr, Ts) == tag = index_of_type(addr.type, Ts)

\* A visit returned a tag and an address of different referents.
Mismatched(o) ==
  /\ o.done
  /\ o.kind = "visit"
  /\ (o.base \/ ~SameReferent(SizeT(o.pos - 1), o.addr, refs[1].Ts))

\* C8: while no reset is in progress the tag and the address belong to the
\* same referent; a visit or has_type that runs wholly between the two
\* writes of a reset finds the tag of the new referent, and the visit the
\* address of the old one; and when the caller runs reset and the readers
\* under one mutex no visit returns a tag and an address of different
\* referents.
C8_ResetNotAtomic ==
  /\ conc.wpc = "idle"
       => Pair(refs[1])
            = <<index_of_type(bound[1].type, refs[1].Ts), bound[1]>>
  /\ (conc.obs.done /\ conc.obs.mid)
       => /\ ~conc.obs.base
          /\ conc.obs.kind = "visit"
               => /\ SizeT(conc.obs.pos - 1)
                       = index_of_type(conc.obs.resetTo.type, refs[1].Ts)
                  /\ conc.obs.addr = conc.obs.resetFrom
          /\ conc.obs.kind = "has_type"
               => conc.obs.ret
                    = has_type(reset_type_index(refs[1], conc.obs.resetTo),
                               conc.obs.X)
  /\ conc.sync => ~Mismatched(conc.obs)

\* Without a mutex, a visit that ran between the two writes of a reset to
\* an object of another type returned the new tag with the old address.
C8_Witness ==
  /\ ~conc.sync
  /\ conc.obs.mid
  /\ Mismatched(conc.obs)
  /\ conc.obs.addr = conc.obs.resetFrom
  /\ conc.obs.resetTo.type # conc.obs.resetFrom.type

===========================================================================
